---- MODULE Spec2Model ----
(***************************************************************************)
(* yatotp: the OTP engine (src/src/otp.rs), the encrypted database         *)
(* (src/src/database.rs) and the commands that use them (src/src/cli.rs).  *)
(*                                                                         *)
(* Three specifications share the variables:                                 *)
(*   OtpSpec  the OTP engine alone: TotpClient::new, totp, hotp;            *)
(*   MacSpec  hotp from the MAC on: dynamic_truncate and the reduction;    *)
(*   Spec     the database file and the commands add, remove, show, list,  *)
(*            with load_database and the environment of the file.          *)
(*                                                                         *)
(* Numbers.  TLC's integers are 32-bit signed.  A u64 is therefore kept as *)
(* its 8 big-endian bytes (what to_be_bytes returns) and a u32 as two      *)
(* 16-bit limbs, and the arithmetic of the code is done on those.          *)
(*                                                                         *)
(* Builds.  Arithmetic overflow panics in a build with overflow checks     *)
(* ("debug") and wraps in one without ("release").  Every call of the      *)
(* engine is made in either build.                                         *)
(***************************************************************************)
EXTENDS Integers, Sequences, FiniteSets, TLC

VARIABLES
    otp,        \* OtpSpec: the TotpClient under test and the last call made on it
    file,       \* the database file at db_path
    origin,     \* where the content of the file comes from (history)
    result,     \* what the last command or call returned
    freed,      \* the buffers holding plaintext that the last command released
    mac         \* MacSpec: a MAC, and the last call that was given it

vars == <<otp, file, origin, result, freed, mac>>

(***************************************************************************)
(* Bytes and fixed-width integers                                          *)
(***************************************************************************)
Byte == 0..255

RECURSIVE SumSeq(_)
SumSeq(s) == IF s = <<>> THEN 0 ELSE Head(s) + SumSeq(Tail(s))

\* n (0 <= n < 2^31) as w big-endian bytes; the bytes above the fourth are 0.
ToBeBytes(n, w) ==
    [i \in 1..w |-> IF w - i >= 4 THEN 0 ELSE (n \div (256 ^ (w - i))) % 256]

U64Zero == ToBeBytes(0, 8)

\* The borrow out of byte i (8 is the least significant) of a - b.
RECURSIVE Borrow(_, _, _)
Borrow(a, b, i) ==
    IF i > 8 THEN 0
    ELSE IF a[i] - b[i] - Borrow(a, b, i + 1) < 0 THEN 1 ELSE 0

\* u64 subtraction: a - b overflows iff a < b.
U64SubOverflows(a, b) == Borrow(a, b, 1) = 1

\* u64::wrapping_sub, a - b modulo 2^64.
U64WrappingSub(a, b) ==
    [i \in 1..8 |-> (256 + a[i] - b[i] - Borrow(a, b, i + 1)) % 256]

\* i64 as u64: a negative x becomes 2^64 + x.
I64AsU64(x) ==
    IF x >= 0 THEN ToBeBytes(x, 8)
    ELSE U64WrappingSub(U64Zero, ToBeBytes(0 - x, 8))

\* The remainder left after the first i bytes of a are divided by d.
RECURSIVE DivRem(_, _, _)
DivRem(a, d, i) ==
    IF i = 0 THEN 0 ELSE (DivRem(a, d, i - 1) * 256 + a[i]) % d

\* u64 division a / d for 0 < d < 2^23, by short division over the bytes.
U64Div(a, d) ==
    [i \in 1..8 |-> (DivRem(a, d, i - 1) * 256 + a[i]) \div d]

\* A u32 as two 16-bit limbs.

\* x * 10 in u32: the wrapped product and whether it overflowed.
U32Mul10(x) ==
    LET lo10 == x.lo * 10
        hi10 == x.hi * 10 + (lo10 \div 65536)
    IN  [hi |-> hi10 % 65536, lo |-> lo10 % 65536, overflow |-> hi10 >= 65536]

\* 10u32.pow(d): the value modulo 2^32 and whether a multiplication overflowed.
\* (core's pow squares; it overflows exactly when 10^d does not fit.)
RECURSIVE U32Pow10(_)
U32Pow10(d) ==
    IF d = 0 THEN [hi |-> 0, lo |-> 1, overflow |-> FALSE]
    ELSE LET p == U32Pow10(d - 1)
             m == U32Mul10(p)
         IN  [hi |-> m.hi, lo |-> m.lo, overflow |-> p.overflow \/ m.overflow]

\* u32::from_be_bytes of 4 bytes whose first is below 128, so the value fits.
U32FromBeBytes(b) == ((b[1] * 256 + b[2]) * 256 + b[3]) * 256 + b[4]

(***************************************************************************)
(* Results of calls                                                        *)
(***************************************************************************)
Value(v) == [kind |-> "value", v |-> v, why |-> ""]
Panic(why) == [kind |-> "panic", v |-> 0, why |-> why]
NoOutput == [kind |-> "none", v |-> 0, why |-> ""]

(***************************************************************************)
(* otp.rs: HMAC                                                            *)
(*                                                                         *)
(* Hmac<Sha1>, Hmac<Sha256> and Hmac<Sha512> are library code.  They are   *)
(* kept as tables of their true values (RFC 2104 over the key and the 8    *)
(* counter bytes) for the keys and counters the model uses: the two keys   *)
(* below, the counters 0..12, and every counter totp derives from the      *)
(* instants, t0 and time steps of OtpSpec, the wrapped ones included.      *)
(***************************************************************************)
\* "12345678901234567890", the key of the RFC 4226 and RFC 6238 tests.
RfcKey == <<49,50,51,52,53,54,55,56,57,48,49,50,51,52,53,54,55,56,57,48>>
\* "Hi"
ShortKey == <<72,105>>

HmacSha1Table ==
    <<RfcKey, <<0,0,0,0,0,0,0,0>>>> :> <<204,147,207,24,80,141,148,147,76,100,182,93,139,167,102,127,183,205,228,176>> @@
    <<RfcKey, <<0,0,0,0,0,0,0,1>>>> :> <<117,164,138,25,212,203,225,0,100,78,138,193,57,126,234,116,122,45,51,171>> @@
    <<RfcKey, <<0,0,0,0,0,0,0,2>>>> :> <<11,172,183,250,8,47,239,48,120,34,17,147,139,193,197,231,4,22,255,68>> @@
    <<RfcKey, <<0,0,0,0,0,0,0,3>>>> :> <<102,194,130,39,208,58,45,85,41,38,47,240,22,161,230,239,118,85,126,206>> @@
    <<RfcKey, <<0,0,0,0,0,0,0,4>>>> :> <<169,4,201,0,166,75,53,144,152,116,179,62,97,197,147,138,142,21,237,28>> @@
    <<RfcKey, <<0,0,0,0,0,0,0,5>>>> :> <<163,126,120,61,123,114,51,192,131,212,246,41,38,199,162,95,35,141,3,22>> @@
    <<RfcKey, <<0,0,0,0,0,0,0,6>>>> :> <<188,156,210,133,97,4,44,131,242,25,50,77,60,96,114,86,192,50,114,174>> @@
    <<RfcKey, <<0,0,0,0,0,0,0,7>>>> :> <<164,251,150,12,11,192,110,30,171,184,4,229,179,151,205,196,180,85,150,250>> @@
    <<RfcKey, <<0,0,0,0,0,0,0,8>>>> :> <<27,60,137,246,94,108,158,136,48,18,5,40,35,68,63,4,139,67,50,219>> @@
    <<RfcKey, <<0,0,0,0,0,0,0,9>>>> :> <<22,55,64,152,9,166,121,220,105,130,7,49,12,140,127,192,114,144,217,229>> @@
    <<RfcKey, <<0,0,0,0,0,0,0,10>>>> :> <<155,157,213,239,154,154,210,93,215,59,249,172,206,166,111,137,161,37,232,115>> @@
    <<RfcKey, <<0,0,0,0,0,0,0,11>>>> :> <<202,30,4,2,193,158,219,104,37,51,158,160,20,63,11,238,84,252,13,192>> @@
    <<RfcKey, <<0,0,0,0,0,0,0,12>>>> :> <<26,218,244,176,191,64,70,208,86,216,240,14,74,106,150,163,107,201,152,7>> @@
    <<RfcKey, <<4,68,68,68,68,68,68,67>>>> :> <<6,112,214,179,193,53,194,186,201,96,112,207,90,150,165,1,190,195,233,49>> @@
    <<RfcKey, <<4,68,68,68,68,68,68,68>>>> :> <<232,192,234,244,118,135,38,166,151,94,94,137,133,170,170,41,110,118,43,182>> @@
    <<RfcKey, <<8,136,136,136,136,136,136,134>>>> :> <<244,108,87,25,160,170,94,98,93,233,177,95,74,224,100,20,135,103,65,0>> @@
    <<RfcKey, <<8,136,136,136,136,136,136,135>>>> :> <<131,78,32,63,227,60,242,209,79,50,217,113,10,82,177,15,37,174,165,131>> @@
    <<RfcKey, <<8,136,136,136,136,136,136,136>>>> :> <<165,114,192,238,238,108,190,182,246,227,4,118,1,198,184,217,174,255,141,208>> @@
    <<ShortKey, <<0,0,0,0,0,0,0,0>>>> :> <<199,90,7,104,120,184,201,165,119,16,149,147,117,11,63,69,43,138,42,155>> @@
    <<ShortKey, <<0,0,0,0,0,0,0,1>>>> :> <<239,167,70,159,141,16,223,193,249,238,20,200,25,159,16,92,242,130,106,249>> @@
    <<ShortKey, <<0,0,0,0,0,0,0,2>>>> :> <<174,104,23,3,0,238,112,102,103,115,71,136,116,100,87,1,104,148,53,4>> @@
    <<ShortKey, <<0,0,0,0,0,0,0,3>>>> :> <<204,39,22,254,100,83,26,215,64,127,48,59,16,119,92,209,129,5,115,27>> @@
    <<ShortKey, <<0,0,0,0,0,0,0,4>>>> :> <<150,54,10,195,30,157,78,9,121,222,235,81,159,244,234,225,98,2,253,103>> @@
    <<ShortKey, <<0,0,0,0,0,0,0,5>>>> :> <<11,7,198,191,166,198,200,182,53,88,92,105,186,206,242,214,237,193,101,15>> @@
    <<ShortKey, <<0,0,0,0,0,0,0,6>>>> :> <<159,54,144,200,232,196,43,221,175,232,160,37,59,46,235,227,92,52,131,42>> @@
    <<ShortKey, <<0,0,0,0,0,0,0,7>>>> :> <<8,104,213,40,167,188,177,81,42,120,33,246,80,41,115,226,49,37,74,7>> @@
    <<ShortKey, <<0,0,0,0,0,0,0,8>>>> :> <<27,63,186,39,160,206,48,79,183,209,229,45,248,157,215,231,196,6,138,234>> @@
    <<ShortKey, <<0,0,0,0,0,0,0,9>>>> :> <<18,2,169,200,113,157,7,13,83,222,80,10,223,65,15,68,23,207,118,110>> @@
    <<ShortKey, <<0,0,0,0,0,0,0,10>>>> :> <<121,92,123,186,77,19,132,175,73,147,17,221,80,64,239,197,46,135,37,122>> @@
    <<ShortKey, <<0,0,0,0,0,0,0,11>>>> :> <<242,154,172,166,40,241,208,28,69,117,253,161,130,227,250,45,181,26,209,90>> @@
    <<ShortKey, <<0,0,0,0,0,0,0,12>>>> :> <<183,193,254,206,203,8,30,229,251,71,141,27,31,150,99,244,52,183,64,92>> @@
    <<ShortKey, <<4,68,68,68,68,68,68,67>>>> :> <<80,150,228,29,173,80,185,194,188,81,35,170,96,202,35,48,52,208,197,0>> @@
    <<ShortKey, <<4,68,68,68,68,68,68,68>>>> :> <<162,194,42,76,223,236,160,30,81,201,4,118,212,113,12,67,212,74,210,74>> @@
    <<ShortKey, <<8,136,136,136,136,136,136,134>>>> :> <<9,28,26,55,214,33,75,196,161,2,178,25,195,17,246,164,174,187,3,15>> @@
    <<ShortKey, <<8,136,136,136,136,136,136,135>>>> :> <<44,235,201,93,48,151,247,65,78,15,156,223,17,202,219,79,206,189,212,227>> @@
    <<ShortKey, <<8,136,136,136,136,136,136,136>>>> :> <<216,106,86,141,78,30,19,70,200,203,65,144,80,48,118,231,118,21,92,61>>

HmacSha256Table ==
    <<RfcKey, <<0,0,0,0,0,0,0,0>>>> :> <<74,185,141,251,179,51,163,59,21,123,172,23,92,117,52,7,107,129,132,203,220,89,67,121,156,148,23,61,148,103,188,249>> @@
    <<RfcKey, <<0,0,0,0,0,0,0,1>>>> :> <<236,157,79,104,123,78,254,106,204,82,16,6,114,102,11,132,192,231,33,11,160,56,33,65,248,236,185,7,150,202,185,18>> @@
    <<RfcKey, <<0,0,0,0,0,0,0,2>>>> :> <<236,200,19,25,195,86,104,204,78,233,70,232,193,230,27,121,196,214,102,176,216,250,169,113,59,37,90,92,83,169,26,153>> @@
    <<RfcKey, <<0,0,0,0,0,0,0,3>>>> :> <<5,112,84,39,201,46,208,97,188,222,238,71,27,167,232,178,254,180,125,31,194,214,247,163,232,229,171,112,126,60,96,3>> @@
    <<RfcKey, <<0,0,0,0,0,0,0,4>>>> :> <<233,111,192,123,152,191,237,161,82,162,144,9,112,167,224,226,221,108,22,181,245,70,211,173,25,56,58,168,69,82,62,94>> @@
    <<RfcKey, <<0,0,0,0,0,0,0,5>>>> :> <<217,143,12,120,122,237,76,58,233,133,162,69,224,133,88,174,205,86,185,210,85,229,191,10,120,86,131,232,213,34,19,29>> @@
    <<RfcKey, <<0,0,0,0,0,0,0,6>>>> :> <<249,208,38,40,140,121,0,117,175,64,76,163,28,33,200,83,136,12,57,159,205,16,175,193,182,52,218,236,90,225,167,50>> @@
    <<RfcKey, <<0,0,0,0,0,0,0,7>>>> :> <<230,187,203,141,185,152,7,190,157,171,48,131,0,167,25,3,158,184,255,93,145,122,248,179,184,255,183,227,130,19,245,242>> @@
    <<RfcKey, <<0,0,0,0,0,0,0,8>>>> :> <<225,254,204,7,160,2,128,29,54,75,85,25,112,73,248,104,68,91,45,241,1,251,219,79,161,171,185,85,202,228,220,236>> @@
    <<RfcKey, <<0,0,0,0,0,0,0,9>>>> :> <<245,202,77,83,105,241,154,25,40,2,241,193,45,13,77,136,93,168,86,249,215,131,136,229,112,174,227,28,36,126,198,125>> @@
    <<RfcKey, <<0,0,0,0,0,0,0,10>>>> :> <<194,10,29,0,184,241,87,142,43,148,131,179,7,98,203,245,106,42,83,62,218,76,97,214,20,27,140,73,106,198,92,130>> @@
    <<RfcKey, <<0,0,0,0,0,0,0,11>>>> :> <<210,20,244,235,146,160,187,195,47,218,215,50,187,46,196,20,83,233,138,204,31,120,228,15,224,95,203,218,43,155,188,195>> @@
    <<RfcKey, <<0,0,0,0,0,0,0,12>>>> :> <<219,147,0,22,200,20,144,240,174,234,127,0,205,74,151,87,48,217,212,72,249,44,166,226,116,114,78,105,170,168,200,208>> @@
    <<RfcKey, <<4,68,68,68,68,68,68,67>>>> :> <<39,136,179,10,159,196,138,29,57,250,144,32,139,25,10,94,181,129,117,240,102,199,170,233,196,132,88,175,105,231,55,145>> @@
    <<RfcKey, <<4,68,68,68,68,68,68,68>>>> :> <<164,170,205,77,148,214,47,4,223,52,40,209,55,211,37,246,108,131,235,217,50,4,71,23,252,235,120,123,202,203,13,207>> @@
    <<RfcKey, <<8,136,136,136,136,136,136,134>>>> :> <<250,95,90,55,251,251,132,63,119,30,167,45,139,199,59,88,70,97,162,249,53,50,254,147,255,141,249,133,187,155,246,7>> @@
    <<RfcKey, <<8,136,136,136,136,136,136,135>>>> :> <<25,93,50,44,71,119,10,132,35,61,204,184,226,74,116,130,88,104,201,243,147,135,90,134,208,200,88,76,234,12,196,25>> @@
    <<RfcKey, <<8,136,136,136,136,136,136,136>>>> :> <<222,244,79,42,91,191,72,79,22,72,248,24,28,92,106,164,7,193,243,43,196,241,220,30,163,104,247,174,127,104,43,83>> @@
    <<ShortKey, <<0,0,0,0,0,0,0,0>>>> :> <<115,202,47,199,196,35,147,189,77,18,64,187,195,197,78,30,234,52,196,162,61,187,137,148,42,234,64,28,49,196,238,221>> @@
    <<ShortKey, <<0,0,0,0,0,0,0,1>>>> :> <<192,186,180,122,251,137,43,254,51,43,183,37,188,225,255,71,78,17,127,101,214,130,92,208,241,90,203,130,94,79,43,19>> @@
    <<ShortKey, <<0,0,0,0,0,0,0,2>>>> :> <<129,219,59,96,143,224,30,101,235,52,211,90,186,12,124,12,148,203,42,184,211,103,226,119,109,31,181,8,173,90,217,196>> @@
    <<ShortKey, <<0,0,0,0,0,0,0,3>>>> :> <<80,219,98,245,26,78,28,137,118,222,102,21,165,183,7,40,70,204,137,25,6,204,73,154,221,248,162,23,138,202,140,0>> @@
    <<ShortKey, <<0,0,0,0,0,0,0,4>>>> :> <<120,217,250,14,200,254,150,179,165,119,63,202,181,79,229,153,121,72,217,135,65,179,243,203,193,0,248,183,41,212,255,167>> @@
    <<ShortKey, <<0,0,0,0,0,0,0,5>>>> :> <<240,228,8,51,114,245,1,72,227,21,219,17,98,121,102,142,212,240,176,137,68,249,230,121,165,223,53,56,19,154,110,19>> @@
    <<ShortKey, <<0,0,0,0,0,0,0,6>>>> :> <<63,162,3,198,129,248,112,8,146,69,43,124,64,16,122,129,56,12,184,196,157,113,83,43,118,45,117,62,201,151,248,214>> @@
    <<ShortKey, <<0,0,0,0,0,0,0,7>>>> :> <<77,134,204,6,29,31,11,173,145,144,213,100,79,35,211,191,57,61,252,80,192,233,204,48,33,79,249,36,48,165,53,100>> @@
    <<ShortKey, <<0,0,0,0,0,0,0,8>>>> :> <<178,90,145,28,3,89,246,247,129,0,79,37,180,76,152,220,145,15,180,192,247,152,174,124,54,192,18,157,12,15,229,198>> @@
    <<ShortKey, <<0,0,0,0,0,0,0,9>>>> :> <<249,143,97,94,168,75,60,204,53,143,81,45,102,52,142,235,236,16,54,250,212,234,198,64,175,93,50,251,32,205,122,236>> @@
    <<ShortKey, <<0,0,0,0,0,0,0,10>>>> :> <<189,84,89,14,199,180,230,11,224,148,248,130,40,63,42,79,124,211,206,6,33,99,64,16,132,172,153,203,91,205,183,184>> @@
    <<ShortKey, <<0,0,0,0,0,0,0,11>>>> :> <<25,88,238,19,142,104,24,189,195,105,8,136,77,172,51,214,16,122,131,130,155,243,64,178,233,62,151,175,13,254,134,135>> @@
    <<ShortKey, <<0,0,0,0,0,0,0,12>>>> :> <<1,0,99,226,159,143,0,206,122,239,209,89,46,59,251,51,202,40,192,175,117,138,104,61,181,192,146,39,34,29,108,109>> @@
    <<ShortKey, <<4,68,68,68,68,68,68,67>>>> :> <<110,18,216,10,142,192,210,129,236,131,120,134,144,59,145,143,10,48,36,178,80,192,123,222,217,221,172,26,6,106,225,172>> @@
    <<ShortKey, <<4,68,68,68,68,68,68,68>>>> :> <<32,45,165,244,180,168,104,169,183,50,15,205,104,0,234,210,74,185,92,184,187,167,254,15,138,137,80,238,247,43,30,84>> @@
    <<ShortKey, <<8,136,136,136,136,136,136,134>>>> :> <<222,14,121,14,83,38,164,213,87,193,25,247,235,4,149,214,104,176,220,176,50,209,130,186,58,147,50,27,204,217,95,94>> @@
    <<ShortKey, <<8,136,136,136,136,136,136,135>>>> :> <<213,203,169,152,65,254,205,168,91,123,178,82,167,15,78,159,17,54,35,110,159,85,196,53,41,207,215,175,182,19,56,70>> @@
    <<ShortKey, <<8,136,136,136,136,136,136,136>>>> :> <<63,235,59,183,246,238,141,16,155,212,90,203,105,129,9,52,142,94,123,233,171,121,91,181,165,120,174,167,160,82,236,160>>

HmacSha512Table ==
    <<RfcKey, <<0,0,0,0,0,0,0,0>>>> :> <<197,164,2,55,237,107,184,173,39,248,56,245,8,53,150,53,230,62,4,190,210,41,216,71,209,99,38,145,182,74,142,219,56,229,152,129,126,60,158,96,128,177,112,156,110,148,57,11,186,179,18,11,204,250,155,213,36,8,42,239,152,210,74,193>> @@
    <<RfcKey, <<0,0,0,0,0,0,0,1>>>> :> <<104,160,217,252,127,107,200,227,6,10,76,167,153,150,3,182,195,93,74,247,178,158,24,197,79,79,145,140,36,64,180,123,109,142,43,43,70,223,37,241,36,48,104,169,38,45,129,200,135,158,7,213,73,145,165,236,120,61,183,56,75,11,145,13>> @@
    <<RfcKey, <<0,0,0,0,0,0,0,2>>>> :> <<220,247,168,9,201,182,159,157,153,206,56,196,147,169,255,94,158,138,140,90,36,98,59,179,131,133,42,199,84,162,197,2,56,49,107,222,152,226,4,88,63,250,30,240,53,217,121,38,20,230,181,59,88,121,140,187,84,249,50,164,125,32,76,66>> @@
    <<RfcKey, <<0,0,0,0,0,0,0,3>>>> :> <<122,124,72,207,37,19,162,51,43,38,52,172,110,49,210,244,154,200,253,48,18,227,106,247,207,211,84,46,193,216,7,194,236,247,124,138,255,41,3,67,60,176,40,1,243,165,191,194,119,8,245,95,89,81,68,37,0,136,3,77,38,158,31,198>> @@
    <<RfcKey, <<0,0,0,0,0,0,0,4>>>> :> <<158,241,49,16,73,108,225,46,222,74,115,102,204,157,129,244,77,232,201,144,219,126,29,71,182,247,71,101,182,157,198,60,205,93,134,113,152,24,179,238,231,142,104,99,242,113,81,41,134,29,91,244,5,138,92,145,225,220,89,114,61,147,108,152>> @@
    <<RfcKey, <<0,0,0,0,0,0,0,5>>>> :> <<108,119,179,13,186,29,115,218,105,68,201,196,95,27,66,65,166,86,135,19,10,133,208,166,48,101,149,2,92,113,180,193,221,247,205,37,249,33,149,182,82,1,240,169,104,124,143,122,219,78,30,183,27,143,193,238,158,161,39,181,157,198,157,183>> @@
    <<RfcKey, <<0,0,0,0,0,0,0,6>>>> :> <<229,217,226,36,49,216,106,184,3,99,183,187,81,191,60,99,180,129,200,3,50,225,48,50,108,152,93,132,189,74,160,207,122,16,232,130,115,240,155,60,251,151,125,77,244,166,107,115,26,219,69,255,62,97,226,232,46,223,18,213,55,37,123,244>> @@
    <<RfcKey, <<0,0,0,0,0,0,0,7>>>> :> <<93,42,233,38,7,72,222,75,43,107,80,163,94,205,129,88,171,199,148,66,45,181,123,228,89,129,174,141,182,21,101,242,201,77,76,142,195,208,230,244,179,120,35,210,38,230,251,161,221,64,136,159,157,167,80,111,200,62,240,149,122,182,37,222>> @@
    <<RfcKey, <<0,0,0,0,0,0,0,8>>>> :> <<149,14,155,1,39,227,155,31,38,47,255,0,255,130,25,155,167,48,121,86,50,8,206,234,192,219,206,89,26,14,129,136,53,53,141,4,68,206,83,145,191,163,159,60,122,153,174,98,8,119,230,115,94,37,112,55,29,6,96,227,148,194,94,49>> @@
    <<RfcKey, <<0,0,0,0,0,0,0,9>>>> :> <<66,113,103,32,69,245,87,227,61,222,222,213,189,156,37,145,154,139,196,13,176,112,66,226,162,199,172,185,17,168,223,173,185,96,120,47,34,190,120,115,97,194,60,1,95,244,0,152,71,159,113,1,207,227,148,96,249,32,70,175,121,73,61,60>> @@
    <<RfcKey, <<0,0,0,0,0,0,0,10>>>> :> <<238,168,136,64,85,163,123,133,166,103,27,235,249,57,148,192,14,8,105,3,117,83,239,68,104,34,85,4,242,156,252,219,131,31,43,127,129,179,222,177,71,138,72,186,137,99,113,131,202,137,2,58,131,152,69,21,18,55,28,83,255,245,121,145>> @@
    <<RfcKey, <<0,0,0,0,0,0,0,11>>>> :> <<206,236,182,227,16,65,30,121,203,53,35,207,21,73,125,80,83,188,2,233,125,17,29,3,154,168,162,3,205,45,63,199,136,197,240,12,50,180,152,79,168,217,110,216,147,169,88,200,17,218,33,3,200,117,249,100,27,29,75,111,70,233,217,125>> @@
    <<RfcKey, <<0,0,0,0,0,0,0,12>>>> :> <<3,178,242,182,52,52,116,6,47,27,192,80,76,230,23,71,211,60,182,81,208,68,219,87,163,96,61,250,131,44,232,8,41,133,233,223,4,26,16,230,25,202,59,191,43,125,120,67,156,29,51,148,245,224,48,189,236,188,106,1,216,203,172,23>> @@
    <<RfcKey, <<4,68,68,68,68,68,68,67>>>> :> <<11,96,52,252,64,61,206,75,13,211,88,225,247,4,8,191,12,222,196,172,155,35,87,72,169,70,130,178,80,205,109,199,204,203,10,42,93,231,213,213,135,80,139,17,40,137,193,18,174,122,88,145,6,50,17,243,20,188,106,36,236,225,149,115>> @@
    <<RfcKey, <<4,68,68,68,68,68,68,68>>>> :> <<168,14,150,14,130,81,194,233,171,127,110,220,22,153,216,45,244,195,45,15,202,17,210,79,115,191,39,112,21,79,189,12,48,182,168,236,231,101,242,226,111,52,249,239,2,54,245,230,149,228,138,172,74,47,50,232,72,55,221,114,112,116,45,210>> @@
    <<RfcKey, <<8,136,136,136,136,136,136,134>>>> :> <<158,174,209,179,110,199,105,124,87,180,65,4,104,166,38,217,99,182,49,88,83,70,205,49,1,243,157,36,109,35,251,189,102,141,121,183,213,177,237,250,185,42,172,82,124,200,239,109,86,19,198,191,188,103,209,128,252,109,7,61,60,182,23,181>> @@
    <<RfcKey, <<8,136,136,136,136,136,136,135>>>> :> <<195,181,255,153,213,254,72,244,164,151,241,150,72,87,38,157,15,92,105,164,197,103,3,73,54,110,134,203,78,154,197,47,226,0,221,19,8,207,18,249,103,162,24,246,3,125,244,5,199,159,202,55,86,42,62,17,11,165,64,218,3,203,102,150>> @@
    <<RfcKey, <<8,136,136,136,136,136,136,136>>>> :> <<129,18,87,113,180,119,90,125,128,95,152,81,41,230,195,26,11,78,203,248,210,87,114,199,204,200,71,103,204,95,235,238,34,1,107,169,66,195,4,143,232,167,19,245,230,40,234,27,52,190,226,159,45,129,179,134,147,44,100,201,250,141,226,38>> @@
    <<ShortKey, <<0,0,0,0,0,0,0,0>>>> :> <<105,145,86,82,181,39,157,219,170,225,106,86,178,186,197,130,110,179,165,56,33,26,158,181,222,132,93,16,70,72,70,181,152,217,199,236,100,154,180,87,219,247,23,42,52,57,23,27,45,116,8,232,255,40,203,19,169,35,204,20,9,250,32,218>> @@
    <<ShortKey, <<0,0,0,0,0,0,0,1>>>> :> <<55,30,109,231,169,98,63,167,67,85,13,144,146,119,68,163,135,98,115,172,74,11,38,48,141,21,46,238,17,212,98,188,104,65,96,232,10,9,45,81,127,49,34,229,15,182,97,126,53,177,235,163,198,4,227,108,101,94,139,126,128,213,16,42>> @@
    <<ShortKey, <<0,0,0,0,0,0,0,2>>>> :> <<113,96,72,49,114,145,130,230,208,33,134,21,21,29,154,50,31,11,112,163,62,185,171,215,1,92,47,222,86,167,144,34,225,223,253,234,0,65,59,147,48,201,158,154,185,17,94,6,232,16,34,237,136,216,141,96,230,47,128,18,227,73,153,128>> @@
    <<ShortKey, <<0,0,0,0,0,0,0,3>>>> :> <<28,58,226,248,136,59,14,151,99,55,215,5,148,66,157,26,13,142,201,18,30,86,236,7,159,140,88,169,124,149,225,67,72,244,18,175,120,2,99,88,225,161,115,225,67,223,114,51,33,155,142,81,241,216,147,159,51,165,81,103,146,198,103,85>> @@
    <<ShortKey, <<0,0,0,0,0,0,0,4>>>> :> <<93,33,20,123,7,91,225,233,61,37,87,227,135,15,165,149,79,15,221,182,61,96,117,193,155,115,205,172,14,184,56,8,17,226,51,89,110,57,210,200,176,58,232,24,164,54,82,60,57,196,8,243,202,49,46,198,154,206,217,98,156,45,242,205>> @@
    <<ShortKey, <<0,0,0,0,0,0,0,5>>>> :> <<202,212,33,221,39,157,52,87,86,230,78,169,10,240,251,16,182,5,252,99,33,148,243,62,19,135,163,119,231,245,172,68,129,165,145,174,184,64,156,142,253,11,152,126,129,114,181,164,15,235,226,252,217,84,73,184,117,130,192,196,245,125,145,75>> @@
    <<ShortKey, <<0,0,0,0,0,0,0,6>>>> :> <<156,230,197,249,193,248,59,86,106,29,249,110,220,94,46,11,230,7,205,207,15,72,81,8,248,4,35,201,90,149,47,241,161,206,143,166,250,65,244,187,34,155,38,208,209,109,103,74,161,62,6,118,25,82,212,161,45,20,18,64,74,80,18,176>> @@
    <<ShortKey, <<0,0,0,0,0,0,0,7>>>> :> <<1,69,213,33,210,250,87,239,108,65,93,79,148,74,142,52,172,2,100,241,244,71,78,174,149,147,146,58,22,255,11,146,119,164,181,65,174,152,137,112,12,78,182,44,254,18,37,151,190,101,207,42,103,116,176,60,41,42,80,24,48,191,75,133>> @@
    <<ShortKey, <<0,0,0,0,0,0,0,8>>>> :> <<178,159,136,5,238,223,187,44,147,254,225,25,12,240,158,166,118,28,60,249,31,149,158,131,153,136,22,43,65,233,189,208,43,3,122,178,179,192,196,245,108,40,137,189,114,98,193,140,15,34,213,217,90,164,100,45,66,207,54,231,99,6,103,109>> @@
    <<ShortKey, <<0,0,0,0,0,0,0,9>>>> :> <<25,87,109,18,111,125,210,255,109,165,220,245,252,136,207,181,8,12,219,33,154,86,146,9,122,86,0,113,121,103,188,69,67,208,188,123,220,20,234,224,252,50,126,212,110,221,125,204,149,4,140,137,156,250,144,145,61,189,12,115,239,213,140,131>> @@
    <<ShortKey, <<0,0,0,0,0,0,0,10>>>> :> <<48,13,121,164,133,95,212,100,206,65,111,208,78,39,128,67,19,86,220,153,67,188,150,85,107,191,224,190,114,41,162,220,39,73,106,60,155,96,201,228,74,199,115,170,229,72,61,17,220,65,205,117,31,9,96,154,65,72,103,171,2,238,141,115>> @@
    <<ShortKey, <<0,0,0,0,0,0,0,11>>>> :> <<232,231,238,115,134,154,111,173,162,211,83,19,40,97,115,161,122,136,23,40,60,110,113,65,36,135,43,147,88,20,205,236,10,201,234,99,129,186,248,168,25,205,202,169,12,125,8,182,34,23,122,205,154,150,255,8,215,214,27,55,40,35,59,96>> @@
    <<ShortKey, <<0,0,0,0,0,0,0,12>>>> :> <<49,111,66,239,182,197,36,176,47,105,130,93,27,47,224,54,170,67,153,8,173,71,163,209,227,219,151,176,229,27,210,239,28,249,84,46,215,229,90,76,143,61,53,1,106,181,233,141,239,194,203,182,93,123,153,153,106,3,76,84,214,186,217,92>> @@
    <<ShortKey, <<4,68,68,68,68,68,68,67>>>> :> <<204,16,2,193,166,126,89,72,67,163,141,60,246,156,31,57,8,252,192,9,172,197,105,68,198,216,57,94,153,235,192,55,150,179,143,4,245,255,29,174,31,13,14,57,216,232,28,229,191,209,24,37,83,90,239,227,213,147,36,33,45,8,27,126>> @@
    <<ShortKey, <<4,68,68,68,68,68,68,68>>>> :> <<31,182,127,213,112,12,43,239,194,188,87,26,177,94,83,172,66,68,254,246,29,64,113,32,83,20,125,200,231,141,78,220,158,34,229,192,206,55,0,69,24,153,75,48,227,154,172,19,152,212,23,87,226,146,175,211,237,120,151,187,63,232,46,188>> @@
    <<ShortKey, <<8,136,136,136,136,136,136,134>>>> :> <<228,36,0,128,69,127,44,39,65,6,72,83,110,237,121,103,207,5,162,89,142,54,137,132,230,250,102,24,109,1,98,136,194,249,26,253,215,177,250,205,246,152,73,48,236,138,49,118,138,233,170,220,144,29,185,244,146,199,38,160,198,211,5,207>> @@
    <<ShortKey, <<8,136,136,136,136,136,136,135>>>> :> <<5,57,74,210,132,47,26,138,34,163,69,168,7,108,1,238,19,119,114,92,60,141,216,125,115,165,34,50,240,225,109,186,225,26,81,129,66,83,165,211,67,123,190,44,221,144,141,68,38,196,44,107,35,166,164,176,147,159,233,12,181,161,215,16>> @@
    <<ShortKey, <<8,136,136,136,136,136,136,136>>>> :> <<97,115,33,246,168,247,29,5,146,180,239,235,90,165,140,42,12,203,246,73,54,81,78,9,60,15,192,15,241,183,233,161,58,127,231,93,166,14,174,98,123,239,149,21,34,248,239,151,245,69,183,149,242,80,215,184,166,86,51,77,139,11,130,124>>

\* HotpClient::hmac_sha1
hmac_sha1(self, counter) == HmacSha1Table[<<self.key, counter>>]

\* HotpClient::hmac_sha256
hmac_sha256(self, counter) == HmacSha256Table[<<self.key, counter>>]

\* HotpClient::hmac_sha512
hmac_sha512(self, counter) == HmacSha512Table[<<self.key, counter>>]

(***************************************************************************)
(* otp.rs: HOTP and TOTP                                                   *)
(***************************************************************************)
HashType == {"Sha1", "Sha256", "Sha512"}

\* HotpClient::new
HotpClient(key, digit, hashtype) ==
    [key |-> key, digit |-> digit, hashtype |-> hashtype]

\* TotpClient::new
TotpClient(key, timestep, t0, digit, hashtype) ==
    [hotp |-> HotpClient(key, digit, hashtype), timestep |-> timestep, t0 |-> t0]

\* A truncation that keeps five bits of the last byte for the offset.
dynamic_truncate_5bits(hs) ==
    IF Len(hs) = 0 \/ (hs[Len(hs)] % 32) + 4 > Len(hs)
    THEN [ok |-> FALSE, bytes |-> <<>>]
    ELSE [ok |-> TRUE,
          bytes |-> << hs[(hs[Len(hs)] % 32) + 1] % 128, hs[(hs[Len(hs)] % 32) + 2],
                       hs[(hs[Len(hs)] % 32) + 3], hs[(hs[Len(hs)] % 32) + 4] >>]

\* dynamic_truncate: hs.last().unwrap() and the four indexings each panic when
\* out of range.  Sequences are 1-based: hs[offset] of the code is hs[offset + 1].
dynamic_truncate(hs) ==
    IF Len(hs) = 0 THEN [ok |-> FALSE, bytes |-> <<>>]
    ELSE LET offset == hs[Len(hs)] % 16
         IN  IF offset + 4 > Len(hs) THEN [ok |-> FALSE, bytes |-> <<>>]
             ELSE [ok |-> TRUE,
                   bytes |-> << hs[offset + 1] % 128, hs[offset + 2],
                                hs[offset + 3], hs[offset + 4] >>]

\* bin_code % m for bin_code < 2^31 and a u32 m > 0 given as limbs.
U32Rem(bin_code, m) ==
    IF m.hi >= 32768 THEN bin_code ELSE bin_code % (m.hi * 65536 + m.lo)

\* HotpClient::hotp from the MAC hs on, for the digit count d: bin_code and
\* its reduction.
HotpCode(hs, d, bld) ==
    IF ~dynamic_truncate(hs).ok THEN Panic("index out of bounds")
    ELSE IF U32Pow10(d).overflow /\ bld = "debug"
         THEN Panic("attempt to multiply with overflow")
    ELSE IF U32Pow10(d).hi = 0 /\ U32Pow10(d).lo = 0
         THEN Panic("attempt to calculate the remainder with a divisor of zero")
    ELSE Value(U32Rem(U32FromBeBytes(dynamic_truncate(hs).bytes), U32Pow10(d)))

\* HotpClient::hotp, in the given build.
hotp(self, counter, bld) ==
    HotpCode(CASE self.hashtype = "Sha1" -> hmac_sha1(self, counter)
               [] self.hashtype = "Sha256" -> hmac_sha256(self, counter)
               [] self.hashtype = "Sha512" -> hmac_sha512(self, counter),
             self.digit, bld)

\* A counter that counts the time steps from the Unix epoch and not from T0.
TotpCounterFromEpoch(self, ts, bld) ==
    IF self.timestep = 0
    THEN [ok |-> FALSE, t |-> U64Zero, why |-> "attempt to divide by zero"]
    ELSE [ok |-> TRUE, t |-> U64Div(I64AsU64(ts), self.timestep), why |-> ""]

\* The counter TotpClient::totp hands to hotp for datetime.timestamp() = ts,
\* or the panic that comes before.
TotpCounter(self, ts, bld) ==
    LET u  == I64AsU64(ts)
        t0 == ToBeBytes(self.t0, 8)
    IN  IF bld = "debug" /\ U64SubOverflows(u, t0)
        THEN [ok |-> FALSE, t |-> U64Zero, why |-> "attempt to subtract with overflow"]
        ELSE IF self.timestep = 0
        THEN [ok |-> FALSE, t |-> U64Zero, why |-> "attempt to divide by zero"]
        ELSE [ok |-> TRUE, t |-> U64Div(U64WrappingSub(u, t0), self.timestep), why |-> ""]

\* TotpClient::totp
totp(self, ts, bld) ==
    LET c == TotpCounter(self, ts, bld)
    IN  IF c.ok THEN hotp(self.hotp, c.t, bld) ELSE Panic(c.why)

\* TotpClient::digit
digit(self) == self.hotp.digit

(***************************************************************************)
(* database.rs: TotpDatabase and its serialized form                       *)
(*                                                                         *)
(* serde_json is library code and the spec leaves the encoding open.  It   *)
(* is kept as a compact text with the properties load and save rely on:    *)
(* numbers are written in decimal, a HashMap is written in its iteration   *)
(* order, and parsing can fail.  An entry reads                            *)
(*     "name"[k1,k2,...,]digit,h,timestep,t0;                              *)
(* with h one of '1' (Sha1), '2' (Sha256), '5' (Sha512), and a database is *)
(* its entries between '{' and '}'.                                        *)
(***************************************************************************)
\* TotpDatabase::new(): the HashMap with no key.
EmptyDb == <<>>

\* HashMap::insert
Insert(db, name, client) ==
    [n \in (DOMAIN db) \cup {name} |-> IF n = name THEN client ELSE db[n]]

\* A removal that leaves no entry at all.
RemoveToEmpty(db, name) == [n \in {} |-> db[n]]

\* HashMap::remove
Remove(db, name) == [n \in (DOMAIN db) \ {name} |-> db[n]]

\* The orders in which a HashMap with the keys S may iterate.
Orders(S) ==
    {o \in [1..Cardinality(S) -> S] : \A x \in S : \E i \in DOMAIN o : o[i] = x}

\* s[i], or -1 past the end.
At(s, i) == IF i \in 1..Len(s) THEN s[i] ELSE -1

\* The last decimal digit of n only.
DecimalLastDigit(n) == <<48 + (n % 10)>>

\* n >= 0 in decimal.
RECURSIVE Decimal(_)
Decimal(n) ==
    IF n < 10 THEN <<48 + n>> ELSE Decimal(n \div 10) \o <<48 + (n % 10)>>

RECURSIVE KeyText(_)
KeyText(key) ==
    IF key = <<>> THEN <<>>
    ELSE Decimal(Head(key)) \o <<44>> \o KeyText(Tail(key))

\* How a HashType is written, and read back.
HashTag(h) ==
    CASE h = "Sha1" -> 1 [] h = "Sha256" -> 2 [] h = "Sha512" -> 5

HashOfTag(b) ==
    CASE b = 1 -> "Sha1" [] b = 2 -> "Sha256" [] OTHER -> "Sha512"

EntryText(name, c) ==
    <<34>> \o name \o <<34, 91>> \o KeyText(c.hotp.key) \o <<93>>
        \o Decimal(c.hotp.digit) \o <<44>> \o Decimal(HashTag(c.hotp.hashtype)) \o <<44>>
        \o Decimal(c.timestep) \o <<44>> \o Decimal(c.t0) \o <<59>>

RECURSIVE EntriesText(_, _)
EntriesText(db, order) ==
    IF order = <<>> THEN <<>>
    ELSE EntryText(Head(order), db[Head(order)]) \o EntriesText(db, Tail(order))

\* SerializedDatabase::serialize, the HashMap iterating in the given order.
serialize(db, order) == <<123>> \o EntriesText(db, order) \o <<125>>

\* The first index from i on that holds no decimal digit.
RECURSIVE NumEnd(_, _)
NumEnd(s, i) == IF At(s, i) \in 48..57 THEN NumEnd(s, i + 1) ELSE i

\* The value of the digits s[i..j-1].
RECURSIVE NumVal(_, _, _)
NumVal(s, i, j) ==
    IF j <= i THEN 0 ELSE NumVal(s, i, j - 1) * 10 + (s[j - 1] - 48)

\* A number at i: at least one digit (more than 9 digits are refused here,
\* which is below what u32 and u64 hold).
ParseNum(s, i) ==
    LET j == NumEnd(s, i)
    IN  IF j > i /\ j - i <= 9
        THEN [ok |-> TRUE, v |-> NumVal(s, i, j), next |-> j]
        ELSE [ok |-> FALSE, v |-> 0, next |-> i]

\* The key bytes from i on, up to the closing ']'.
RECURSIVE ParseKey(_, _, _)
ParseKey(s, i, acc) ==
    IF At(s, i) = 93 THEN [ok |-> TRUE, key |-> acc, next |-> i + 1]
    ELSE LET n == ParseNum(s, i)
         IN  IF n.ok /\ n.v <= 255 /\ At(s, n.next) = 44
             THEN ParseKey(s, n.next + 1, Append(acc, n.v))
             ELSE [ok |-> FALSE, key |-> <<>>, next |-> i]

\* The index of the next '"' from i on, or 0.
RECURSIVE QuoteEnd(_, _)
QuoteEnd(s, i) ==
    IF i > Len(s) THEN 0 ELSE IF s[i] = 34 THEN i ELSE QuoteEnd(s, i + 1)

NoEntry == [ok |-> FALSE, name |-> <<>>,
            client |-> TotpClient(<<>>, 0, 0, 0, "Sha1"), next |-> 0]

NoNums == [ok |-> FALSE, vs |-> <<>>, next |-> 0]

\* The numbers from i on: a ',' after each but the last, a ';' after the last.
RECURSIVE ParseNums(_, _, _), NumsAfter(_, _, _)
ParseNums(s, i, acc) == NumsAfter(s, acc, ParseNum(s, i))
NumsAfter(s, acc, n) ==
    IF ~n.ok THEN NoNums
    ELSE IF At(s, n.next) = 44 THEN ParseNums(s, n.next + 1, Append(acc, n.v))
    ELSE IF At(s, n.next) = 59
         THEN [ok |-> TRUE, vs |-> Append(acc, n.v), next |-> n.next + 1]
    ELSE NoNums

\* The entry with the name and the key read, f the numbers after the key:
\* digits, hash, time step and T0.
EntryWith(name, key, f) ==
    IF f.ok /\ Len(f.vs) = 4 /\ f.vs[2] \in {1, 2, 5}
    THEN [ok |-> TRUE, name |-> name,
          client |-> TotpClient(key, f.vs[3], f.vs[4], f.vs[1], HashOfTag(f.vs[2])),
          next |-> f.next]
    ELSE NoEntry

EntryOf(s, name, k) ==
    IF k.ok THEN EntryWith(name, k.key, ParseNums(s, k.next, <<>>)) ELSE NoEntry

\* The entry at i, q the quote that closes its name.
EntryAt(s, i, q) ==
    IF At(s, i) = 34 /\ q > 0 /\ At(s, q + 1) = 91
    THEN EntryOf(s, SubSeq(s, i + 1, q - 1), ParseKey(s, q + 2, <<>>))
    ELSE NoEntry

\* One entry at i.
ParseEntry(s, i) == EntryAt(s, i, QuoteEnd(s, i + 1))

\* The entries from i on, up to the closing '}'; a name read twice keeps the
\* later entry.
RECURSIVE ParseEntries(_, _, _), EntriesAfter(_, _, _)
ParseEntries(s, i, db) ==
    IF At(s, i) = 125 THEN [ok |-> i = Len(s), db |-> IF i = Len(s) THEN db ELSE EmptyDb]
    ELSE EntriesAfter(s, db, ParseEntry(s, i))
EntriesAfter(s, db, e) ==
    IF e.ok THEN ParseEntries(s, e.next, Insert(db, e.name, e.client))
    ELSE [ok |-> FALSE, db |-> EmptyDb]

\* SerializedDatabase::deserialize
deserialize(data) ==
    IF At(data, 1) = 123 THEN ParseEntries(data, 2, EmptyDb)
    ELSE [ok |-> FALSE, db |-> EmptyDb]

\* String::from_utf8: whether the bytes from i on are well-formed UTF-8.
RECURSIVE Utf8From(_, _)
Utf8From(s, i) ==
    IF i > Len(s) THEN TRUE
    ELSE LET b == s[i]
             Cont(j) == At(s, j) \in 128..191
         IN  IF b < 128 THEN Utf8From(s, i + 1)
             ELSE IF b \in 194..223 THEN Cont(i + 1) /\ Utf8From(s, i + 2)
             ELSE IF b \in 224..239
                  THEN /\ Cont(i + 1) /\ Cont(i + 2)
                       /\ (b = 224 => At(s, i + 1) >= 160)
                       /\ (b = 237 => At(s, i + 1) <= 159)
                       /\ Utf8From(s, i + 3)
             ELSE IF b \in 240..244
                  THEN /\ Cont(i + 1) /\ Cont(i + 2) /\ Cont(i + 3)
                       /\ (b = 240 => At(s, i + 1) >= 144)
                       /\ (b = 244 => At(s, i + 1) <= 143)
                       /\ Utf8From(s, i + 4)
             ELSE FALSE

IsUtf8(s) == Utf8From(s, 1)

(***************************************************************************)
(* otp.rs: base32 keys                                                     *)
(***************************************************************************)
\* The value of a character of the RFC 4648 base32 alphabet, or -1.
B32Val(c) == IF c \in 65..90 THEN c - 65 ELSE IF c \in 50..55 THEN c - 24 ELSE -1

\* The number of '=' that end s.
RECURSIVE PadCount(_)
PadCount(s) ==
    IF s # <<>> /\ s[Len(s)] = 61 THEN 1 + PadCount(SubSeq(s, 1, Len(s) - 1)) ELSE 0

\* BASE32.decode: whole blocks of 8 characters, '=' padding, no stray bits.
Base32Decode(text) ==
    LET p      == PadCount(text)
        n      == Len(text) - p
        nbytes == (5 * n) \div 8
        Bit(k) == (B32Val(text[((k - 1) \div 5) + 1]) \div (2 ^ (4 - ((k - 1) % 5)))) % 2
        ByteAt(j) ==
            LET B(b) == Bit(8 * (j - 1) + b)
            IN  128 * B(1) + 64 * B(2) + 32 * B(3) + 16 * B(4)
                    + 8 * B(5) + 4 * B(6) + 2 * B(7) + B(8)
    IN  IF \/ Len(text) % 8 # 0
           \/ p \notin {0, 1, 3, 4, 6}
           \/ \E i \in 1..n : B32Val(text[i]) < 0
           \/ \E k \in (8 * nbytes + 1)..(5 * n) : Bit(k) # 0
        THEN [ok |-> FALSE, bytes |-> <<>>]
        ELSE [ok |-> TRUE, bytes |-> [j \in 1..nbytes |-> ByteAt(j)]]

\* TotpClient::from_base32key
from_base32key(key, timestep, t0, d, hashtype) ==
    LET k == Base32Decode(key)
    IN  [ok |-> k.ok, client |-> TotpClient(k.bytes, timestep, t0, d, hashtype)]

(***************************************************************************)
(* database.rs: the encrypted file                                         *)
(*                                                                         *)
(* Argon2id and ChaCha20Poly1305 are library code, kept as ideal           *)
(* primitives: a derived key is determined by, and determines, password    *)
(* and salt; a tag verifies exactly for the key, nonce and ciphertext it   *)
(* was made for.  The cipher adds a keystream, a byte per position that    *)
(* key and nonce determine.  BASE64 is library code too: a base64 field is *)
(* kept as the bytes it decodes to, or as not decodable.                   *)
(***************************************************************************)
CHACHA20_NONCE_LEN == 12

\* hasher.hash_password(password, &salt)...hash
Argon2id(password, salt) == [password |-> password, salt |-> salt]

KeyStream(key, nonce) == SumSeq(key.password) + SumSeq(key.salt) + SumSeq(nonce)

\* The Poly1305 tag; x # 0 is a tag with bytes changed.
Tag(key, nonce, ct) == [key |-> key, nonce |-> nonce, ct |-> ct, x |-> 0]

\* cipher.encrypt(nonce, plaintext)
AeadEncrypt(key, nonce, pt) ==
    LET ks == KeyStream(key, nonce)
        ct == [i \in 1..Len(pt) |-> (pt[i] + ks + 31 * i) % 256]
    IN  [ct |-> ct, tag |-> Tag(key, nonce, ct)]

\* A cipher that takes the keystream off whatever the tag is.
AeadDecryptUnverified(key, nonce, ct, tag) ==
    [ok |-> TRUE,
     pt |-> [i \in 1..Len(ct) |->
                (ct[i] + 512 - (KeyStream(key, nonce) % 256) - ((31 * i) % 256)) % 256]]

\* cipher.decrypt(nonce, ciphertext): nothing unless the tag verifies.
AeadDecrypt(key, nonce, ct, tag) ==
    LET ks == KeyStream(key, nonce)
    IN  IF tag = Tag(key, nonce, ct)
        THEN [ok |-> TRUE,
              pt |-> [i \in 1..Len(ct) |-> (ct[i] + 512 - (ks % 256) - ((31 * i) % 256)) % 256]]
        ELSE [ok |-> FALSE, pt |-> <<>>]

\* SaltString::new: 4 to 64 characters of [A-Za-z0-9+/].
SaltStringOk(s) ==
    /\ Len(s) \in 4..64
    /\ \A i \in 1..Len(s) : s[i] \in (65..90) \cup (97..122) \cup (48..57) \cup {43, 47}

\* BASE64.encode / a field that BASE64.decode refuses
B64(bytes) == [ok |-> TRUE, bytes |-> bytes]
NotB64 == [ok |-> FALSE, bytes |-> <<>>]

\* struct EncryptedDatabase; tag travels with the ciphertext in encrypted_data.
EncryptedDatabase(nonce, salt, data, tag) ==
    [nonce |-> nonce, salt |-> salt, encrypted_data |-> data, tag |-> tag]

NoContainer == EncryptedDatabase(NotB64, <<>>, NotB64, Tag(Argon2id(<<>>, <<>>), <<>>, <<>>))

\* The file: absent, text that is no EncryptedDatabase (an empty or cut file),
\* or the JSON of an EncryptedDatabase.
Absent == [state |-> "absent", enc |-> NoContainer]
NotJson == [state |-> "text", enc |-> NoContainer]
JsonOf(enc) == [state |-> "json", enc |-> enc]

\* A buffer that held plaintext, as it is when released.
Buf(holder, scrubbed) == [holder |-> holder, scrubbed |-> scrubbed]

\* impl Drop for SerializedDatabase: filled with random bytes, then released.
DropSerializedDatabase == Buf("SerializedDatabase", TRUE)

\* The nonce of encrypt: the clock in milliseconds, big-endian, and 4 random bytes.
NonceOf(millis, suffix) == ToBeBytes(millis, 8) \o suffix

\* EncryptedDatabase::encrypt from cipher.encrypt on, sealed what it returns
\* when it does not fail.
Encrypted(salt, nonce, sealed, fails) ==
    IF fails
    THEN [ok |-> FALSE, enc |-> NoContainer, nonce |-> nonce,
          freed |-> <<DropSerializedDatabase>>]
    ELSE [ok |-> TRUE,
          enc |-> EncryptedDatabase(B64(nonce), salt, B64(sealed.ct), sealed.tag),
          nonce |-> nonce,
          freed |-> <<DropSerializedDatabase>>]

\* EncryptedDatabase::encrypt.  rnd: the salt, the clock, the random suffix and
\* the iteration order drawn in this call; fails: cipher.encrypt returns Err.
encrypt(database, password, rnd, fails) ==
    Encrypted(rnd.salt, NonceOf(rnd.millis, rnd.suffix),
              AeadEncrypt(Argon2id(password, rnd.salt),
                          NonceOf(rnd.millis, rnd.suffix),
                          serialize(database, rnd.order)),
              fails)

Err(why, freedBufs) == [status |-> "Err", err |-> why, db |-> EmptyDb, freed |-> freedBufs]
Abort(why, freedBufs) == [status |-> "Panic", err |-> why, db |-> EmptyDb, freed |-> freedBufs]

\* EncryptedDatabase::decrypt from SerializedDatabase::deserialize on.
Deserialized(parsed) ==
    IF ~parsed.ok THEN Err("invalid database", <<DropSerializedDatabase>>)
    ELSE [status |-> "Ok", err |-> "", db |-> parsed.db,
          freed |-> <<DropSerializedDatabase>>]

\* EncryptedDatabase::decrypt from cipher.decrypt on.  The bytes that are not
\* UTF-8 stay in the FromUtf8Error, which is released as it is.
Decrypted(opened) ==
    IF ~opened.ok THEN Err("Decryption failed", <<>>)
    ELSE IF ~IsUtf8(opened.pt)
         THEN Err("invalid utf-8", <<Buf("FromUtf8Error", FALSE)>>)
    ELSE Deserialized(deserialize(opened.pt))

\* EncryptedDatabase::decrypt
decrypt(self, password) ==
    IF ~self.nonce.ok THEN Err("invalid base64", <<>>)
    ELSE IF Len(self.nonce.bytes) # CHACHA20_NONCE_LEN
         THEN Abort("Nonce::from_slice: wrong length", <<>>)
    ELSE IF ~SaltStringOk(self.salt) THEN Abort("SaltString::new: unwrap on Err", <<>>)
    ELSE IF ~self.encrypted_data.ok THEN Err("invalid base64", <<>>)
    ELSE Decrypted(AeadDecrypt(Argon2id(password, self.salt), self.nonce.bytes,
                               self.encrypted_data.bytes, self.tag))

\* load_database
load_database(f, password) ==
    IF f.state = "absent" THEN Err("file not found", <<>>)
    ELSE IF f.state = "text" THEN Err("invalid container", <<>>)
    ELSE decrypt(f.enc, password)

\* What the file system does to a save_database:
\*   ok           every call succeeds;
\*   create_fail  File::create returns Err;
\*   write_fail   write_all returns Err (the text is larger than the buffer);
\*   flush_fail   the write fails when the BufWriter is dropped, which is ignored.
\* encrypt_fail is cipher.encrypt returning Err.
IoOutcomes == {"ok", "create_fail", "encrypt_fail", "write_fail", "flush_fail"}

\* save_database from File::create on, e what encrypt returns.
Written(f, io, e) ==
    IF io = "create_fail"
    THEN [status |-> "Err", err |-> "create failed", file |-> f,
          sealed |-> FALSE, nonce |-> <<>>, freed |-> <<>>]
    ELSE IF ~e.ok
    THEN [status |-> "Err", err |-> "Encryption failed", file |-> NotJson,
          sealed |-> FALSE, nonce |-> <<>>, freed |-> e.freed]
    ELSE IF io = "write_fail"
    THEN [status |-> "Err", err |-> "write failed", file |-> NotJson,
          sealed |-> TRUE, nonce |-> e.nonce, freed |-> e.freed]
    ELSE IF io = "flush_fail"
    THEN [status |-> "Ok", err |-> "", file |-> NotJson,
          sealed |-> TRUE, nonce |-> e.nonce, freed |-> e.freed]
    ELSE [status |-> "Ok", err |-> "", file |-> JsonOf(e.enc),
          sealed |-> TRUE, nonce |-> e.nonce, freed |-> e.freed]

\* save_database on the file f.  File::create truncates f before encrypt runs.
save_database(f, database, password, rnd, io) ==
    Written(f, io, encrypt(database, password, rnd, io = "encrypt_fail"))

(***************************************************************************)
(* Spec: the database file and the commands of cli.rs                      *)
(***************************************************************************)
Builds == {"debug", "release"}

\* "a", "b"
Names == {<<97>>, <<98>>}
\* "p", "q"
Passwords == {<<112>>, <<113>>}
\* What SaltString::generate may return: 22 characters.
Salts == {[i \in 1..22 |-> 65], [i \in 1..22 |-> 66]}
\* What the clock may read, in milliseconds, at a save.
FirstMillis == 1000
MaxTick == 1
Clock == FirstMillis..(FirstMillis + MaxTick)
\* What the 4 random bytes of a nonce may be.
Suffixes == {<<0, 0, 0, 0>>, <<222, 173, 190, 239>>}
\* Utc::now().timestamp() at a show.
Now == {59, 90}

\* What the user may answer to the prompts of add after the name: the key,
\* the time step, T0, the digits (the prompt takes 0..10 only) and the hash,
\* with the -e switch of the command line.
AddInputs ==
    { [key |-> ShortKey, base32 |-> FALSE,
       timestep |-> 30, t0 |-> 0, digit |-> 6, hashtype |-> "Sha1"],
      [key |-> <<74, 66, 85, 81, 61, 61, 61, 61>>, base32 |-> TRUE,
       timestep |-> 60, t0 |-> 60, digit |-> 0, hashtype |-> "Sha256"],
      [key |-> ShortKey, base32 |-> TRUE,
       timestep |-> 30, t0 |-> 0, digit |-> 6, hashtype |-> "Sha1"] }

\* Everything drawn at random, or read from the clock, in one encrypt of a
\* database with the keys S.
Randoms(S) ==
    [salt : Salts, millis : Clock, suffix : Suffixes, order : Orders(S)]

\* The command that ran last, until its process ends: what it was, what it
\* returned, and what it was given.
NoResult ==
    [op |-> "none", status |-> "None", err |-> "", db |-> EmptyDb,
     password |-> <<>>, name |-> <<>>, found |-> FALSE, wrote |-> FALSE,
     reused |-> FALSE, out |-> <<>>]

NoOrigin == [state |-> "none", db |-> EmptyDb, password |-> <<>>]

\* No command is running.
AtPrompt == result.op = "none"

\* Whether a container sealed with rnd under the password has the derived
\* key and the nonce of the container in f.
Reuses(f, password, rnd) ==
    /\ f.state = "json"
    /\ f.enc.tag.key = Argon2id(password, rnd.salt)
    /\ f.enc.nonce = B64(NonceOf(rnd.millis, rnd.suffix))

\* A command that ends without touching the file.
Ends(r, bufs) ==
    /\ result' = r
    /\ freed' = bufs
    /\ UNCHANGED <<file, origin>>

\* add and remove after save_database returned s.
Saved(r, database, io, reused, s, loadFreed) ==
    /\ file' = s.file
    /\ origin' = IF io = "ok"
                 THEN [state |-> "saved", db |-> database, password |-> r.password]
                 ELSE IF io = "create_fail" THEN origin
                 ELSE [NoOrigin EXCEPT !.state = "damaged"]
    /\ result' = [r EXCEPT !.status = s.status, !.err = s.err,
                           !.db = IF s.status = "Ok" THEN database ELSE EmptyDb,
                           !.wrote = (io # "create_fail"),
                           !.reused = reused]
    /\ freed' = loadFreed \o s.freed

\* The part of add and remove from save_database on.  What fails in a save
\* that fails does not depend on what was drawn at random.
SaveAs(r, database, loadFreed) ==
    \E io \in IoOutcomes :
    \E rnd \in (IF io = "ok" THEN Randoms(DOMAIN database)
                ELSE {CHOOSE x \in Randoms(DOMAIN database) : TRUE}) :
        Saved(r, database, io, io = "ok" /\ Reuses(file, r.password, rnd),
              save_database(file, database, r.password, rnd, io), loadFreed)

\* add with the name and the answers to the prompts, c the client made of them.
AddClient(r, db, c, bufs) ==
    IF ~c.ok THEN Ends([r EXCEPT !.status = "Err", !.err = "invalid base32"], bufs)
    ELSE SaveAs(r, Insert(db, r.name, c.client), bufs)

\* An add that does not look whether the name is there, and inserts.
AddToOverwriting(db, password, bufs) ==
    \E name \in Names, inp \in AddInputs :
        AddClient([NoResult EXCEPT !.op = "add", !.password = password,
                                   !.name = name, !.found = (name \in DOMAIN db)],
                  db,
                  [ok |-> ~inp.base32,
                   client |-> TotpClient(inp.key, inp.timestep, inp.t0, inp.digit,
                                         inp.hashtype)],
                  bufs)

\* add from the prompt for the name on, with the database db that was loaded
\* (or made) and the buffers bufs that loading released.
AddTo(db, password, bufs) ==
    \E name \in Names :
        IF name \in DOMAIN db
        THEN Ends([NoResult EXCEPT !.op = "add", !.password = password, !.db = db,
                                   !.name = name, !.found = TRUE,
                                   !.status = "Err", !.err = "already exists"], bufs)
        ELSE \E inp \in AddInputs :
                AddClient([NoResult EXCEPT !.op = "add", !.password = password,
                                           !.name = name],
                          db, 
                          IF inp.base32
                          THEN from_base32key(inp.key, inp.timestep, inp.t0, inp.digit,
                                              inp.hashtype)
                          ELSE [ok |-> TRUE,
                                client |-> TotpClient(inp.key, inp.timestep, inp.t0,
                                                      inp.digit, inp.hashtype)],
                          bufs)

\* add after load_database returned l.
AddLoaded(l, password) ==
    IF l.status # "Ok"
    THEN Ends([NoResult EXCEPT !.op = "add", !.password = password,
                               !.status = l.status, !.err = l.err], l.freed)
    ELSE AddTo(l.db, password, l.freed)

\* cli::add.  Without a file it asks whether to make one, and ends if not.
Add ==
    /\ AtPrompt
    /\ IF file.state = "absent"
       THEN \/ Ends([NoResult EXCEPT !.op = "add", !.status = "Ok"], <<>>)
            \/ \E password \in Passwords : AddTo(EmptyDb, password, <<>>)
       ELSE \E password \in Passwords :
                AddLoaded(load_database(file, password), password)

\* remove after load_database returned l: HashMap::remove, whose result is
\* dropped, then save_database.
RemoveLoaded(l, password) ==
    IF l.status # "Ok"
    THEN Ends([NoResult EXCEPT !.op = "remove", !.password = password,
                               !.status = l.status, !.err = l.err], l.freed)
    ELSE \E name \in Names :
            SaveAs([NoResult EXCEPT !.op = "remove", !.password = password,
                                    !.name = name, !.found = (name \in DOMAIN l.db)],
                   Remove(l.db, name), l.freed)

\* cli::remove
RemoveEntry ==
    /\ AtPrompt
    /\ \E password \in Passwords : RemoveLoaded(load_database(file, password), password)

\* format!("{:0>width$}", v): v in decimal, zeros on the left up to width.
RECURSIVE ZeroPad(_, _)
ZeroPad(text, width) ==
    IF Len(text) >= width THEN text ELSE ZeroPad(<<48>> \o text, width)

\* show after totp returned code.
Shown(r, code, width, bufs) ==
    IF code.kind = "panic"
    THEN Ends([r EXCEPT !.status = "Panic", !.err = code.why], bufs)
    ELSE Ends([r EXCEPT !.status = "Ok", !.out = ZeroPad(Decimal(code.v), width)], bufs)

\* show after load_database returned l: &db[name] aborts without the entry.
ShowLoaded(l, password) ==
    IF l.status # "Ok"
    THEN Ends([NoResult EXCEPT !.op = "show", !.password = password,
                               !.status = l.status, !.err = l.err], l.freed)
    ELSE \E name \in Names :
            IF name \notin DOMAIN l.db
            THEN Ends([NoResult EXCEPT !.op = "show", !.password = password,
                                       !.db = l.db, !.name = name,
                                       !.status = "Panic",
                                       !.err = "HashMap index: no entry"], l.freed)
            ELSE \E now \in Now, bld \in Builds :
                    Shown([NoResult EXCEPT !.op = "show", !.password = password,
                                           !.db = l.db, !.name = name, !.found = TRUE],
                          totp(l.db[name], now, bld), digit(l.db[name]), l.freed)

\* cli::show
Show ==
    /\ AtPrompt
    /\ \E password \in Passwords : ShowLoaded(load_database(file, password), password)

\* The names, a line each.
RECURSIVE Lines(_)
Lines(names) ==
    IF names = <<>> THEN <<>> ELSE Head(names) \o <<10>> \o Lines(Tail(names))

\* list after load_database returned l.
ListLoaded(l, password) ==
    IF l.status # "Ok"
    THEN Ends([NoResult EXCEPT !.op = "list", !.password = password,
                               !.status = l.status, !.err = l.err], l.freed)
    ELSE \E order \in Orders(DOMAIN l.db) :
            Ends([NoResult EXCEPT !.op = "list", !.password = password,
                                  !.status = "Ok", !.db = l.db, !.out = Lines(order)],
                 l.freed)

\* cli::list
List ==
    /\ AtPrompt
    /\ \E password \in Passwords : ListLoaded(load_database(file, password), password)

\* What a caller of load_database sees.
Loaded(l, password) ==
    Ends([NoResult EXCEPT !.op = "load", !.status = l.status, !.err = l.err,
                          !.db = l.db, !.password = password], l.freed)

\* database::load_database called on the file, as every command calls it.
LoadDatabase ==
    /\ AtPrompt
    /\ \E password \in Passwords : Loaded(load_database(file, password), password)

\* The process of the command ends: what it returned and what it released
\* are gone.
Exit ==
    /\ ~AtPrompt
    /\ result' = NoResult
    /\ freed' = <<>>
    /\ UNCHANGED <<file, origin>>

\* Files that were not written by save_database: damaged containers, and
\* containers another program sealed under the password "p".
ForeignSalt == [i \in 1..22 |-> 67]
ForeignNonce == NonceOf(FirstMillis, <<9, 9, 9, 9>>)
SealedAs(sealed) ==
    JsonOf(EncryptedDatabase(B64(ForeignNonce), ForeignSalt, B64(sealed.ct), sealed.tag))
SealedForeign(pt) ==
    SealedAs(AeadEncrypt(Argon2id(<<112>>, ForeignSalt), ForeignNonce, pt))
Sealed == SealedForeign(serialize(EmptyDb, <<>>)).enc
ForeignFiles ==
    { NotJson,
      JsonOf([Sealed EXCEPT !.nonce = NotB64]),
      JsonOf([Sealed EXCEPT !.nonce = B64(SubSeq(ForeignNonce, 1, 11))]),
      JsonOf([Sealed EXCEPT !.salt = <<33, 33>>]),
      JsonOf([Sealed EXCEPT !.encrypted_data = NotB64]),
      SealedForeign(<<123, 255, 125>>),
      SealedForeign(<<123, 34, 97, 125>>) }

\* Another program writes the file.
ExternalWrite ==
    /\ AtPrompt
    /\ \E f \in ForeignFiles : file' = f
    /\ origin' = [NoOrigin EXCEPT !.state = "foreign"]
    /\ UNCHANGED <<result, freed>>

\* The file with byte i of the encrypted text changed by d, or, past the
\* text, with a byte of the tag changed.
TamperedAt(f, i, d) ==
    IF i <= Len(f.enc.encrypted_data.bytes)
    THEN [f EXCEPT !.enc.encrypted_data.bytes[i] = (@ + d) % 256]
    ELSE [f EXCEPT !.enc.tag.x = d]

\* The bytes the model changes: the first, the middle and the last byte of
\* the encrypted text of n bytes, and the tag.
TamperPlaces(n) == {1, (n + 1) \div 2, n, n + 1} \ {0}
\* The change: the top bit of the byte.
TamperDelta == 128

\* One byte of the ciphertext of a file that save_database wrote is changed.
Tamper ==
    /\ AtPrompt
    /\ origin.state = "saved"
    /\ \E i \in TamperPlaces(Len(file.enc.encrypted_data.bytes)) :
          file' = TamperedAt(file, i, TamperDelta)
    /\ origin' = [origin EXCEPT !.state = "tampered"]
    /\ UNCHANGED <<result, freed>>

OtpIdle ==
    [client |-> TotpClient(RfcKey, 30, 0, 6, "Sha1"), op |-> "new",
     build |-> "release", ts |-> 0, counter |-> U64Zero, out |-> NoOutput]

\* A MAC hs and the last call given it: dynamic_truncate, which returned dt,
\* or hotp's code for the digit count d in the build, which returned out.
MacCall(hs, op, d, bld, dt, out) ==
    [hs |-> hs, op |-> op, digit |-> d, build |-> bld, dt |-> dt, out |-> out]

NoBytes == [ok |-> FALSE, bytes |-> <<>>]

MacIdle == MacCall(<<>>, "new", 0, "release", NoBytes, NoOutput)

Init ==
    /\ otp = OtpIdle
    /\ file = Absent
    /\ origin = NoOrigin
    /\ result = NoResult
    /\ freed = <<>>
    /\ mac = MacIdle

Next ==
    \/ (Add /\ UNCHANGED <<otp, mac>>)
    \/ (RemoveEntry /\ UNCHANGED <<otp, mac>>)
    \/ (Show /\ UNCHANGED <<otp, mac>>)
    \/ (List /\ UNCHANGED <<otp, mac>>)
    \/ (LoadDatabase /\ UNCHANGED <<otp, mac>>)
    \/ (ExternalWrite /\ UNCHANGED <<otp, mac>>)
    \/ (Tamper /\ UNCHANGED <<otp, mac>>)
    \/ (Exit /\ UNCHANGED <<otp, mac>>)

Spec == Init /\ [][Next]_vars

(***************************************************************************)
(* OtpSpec: the OTP engine                                                 *)
(***************************************************************************)
\* The arguments of TotpClient::new that OtpSpec draws from.
MaxWindow == 3
MaxCounter == 9
OtpKeys == {RfcKey, ShortKey}
TimeSteps == {0, 30, 60}
Epochs == {0, 60}
Digits == {0, 1, 6, 8, 9, 10, 11}
\* datetime.timestamp(): one second before the Unix epoch, and the first and
\* the last second of the 30-second windows 0..MaxWindow.
Instants == {-1} \cup {k * 30 + r : k \in 0..MaxWindow, r \in {0, 29}}
Counters == 0..MaxCounter

\* The client, the last call on it, the build it ran in, its argument (ts of
\* totp), the counter handed to hotp and what the call returned.
OtpCall(client, op, bld, ts, counter, out) ==
    [client |-> client, op |-> op, build |-> bld, ts |-> ts, counter |-> counter,
     out |-> out]

OtpClients ==
    {TotpClient(key, timestep, t0, d, hashtype) :
        key \in OtpKeys, timestep \in TimeSteps, t0 \in Epochs,
        d \in Digits, hashtype \in HashType}

\* client.totp(&datetime)
OtpTotp ==
    /\ otp.op = "new"
    /\ \E ts \in Instants, bld \in Builds :
        otp' = OtpCall(otp.client, "totp", bld, ts,
                       TotpCounter(otp.client, ts, bld).t,
                       totp(otp.client, ts, bld))

\* client.hotp.hotp(&counter), as the tests of otp.rs call it
OtpHotp ==
    /\ otp.op = "new"
    /\ \E c \in Counters, bld \in Builds :
        otp' = OtpCall(otp.client, "hotp", bld, 0, ToBeBytes(c, 8),
                       hotp(otp.client.hotp, ToBeBytes(c, 8), bld))

\* The caller is done with what the call returned.
OtpReturn ==
    /\ otp.op # "new"
    /\ otp' = OtpCall(otp.client, "new", "release", 0, U64Zero, NoOutput)

\* A client made by TotpClient::new.
OtpInit ==
    /\ \E client \in OtpClients :
          otp = OtpCall(client, "new", "release", 0, U64Zero, NoOutput)
    /\ file = Absent
    /\ origin = NoOrigin
    /\ result = NoResult
    /\ freed = <<>>
    /\ mac = MacIdle

OtpNext ==
    \/ (OtpTotp /\ UNCHANGED <<file, origin, result, freed, mac>>)
    \/ (OtpHotp /\ UNCHANGED <<file, origin, result, freed, mac>>)
    \/ (OtpReturn /\ UNCHANGED <<file, origin, result, freed, mac>>)

OtpSpec == OtpInit /\ [][OtpNext]_vars

(***************************************************************************)
(* MacSpec: dynamic_truncate and hotp's reduction, on MACs of the lengths  *)
(* the three hashes return                                                 *)
(***************************************************************************)
\* The output sizes of SHA-1, SHA-256 and SHA-512, in bytes.
MacLengths == {20, 32, 64}
\* What the bytes before the last are made of.
MacSeeds == {3, 200}

\* A MAC of len bytes that ends in the byte last.
Mac(len, seed, last) ==
    [i \in 1..len |-> IF i = len THEN last ELSE (seed + 37 * i) % 256]

\* dynamic_truncate(&hs)
MacTruncate ==
    /\ mac.op = "new"
    /\ mac' = MacCall(mac.hs, "dynamic_truncate", 0, "release",
                      dynamic_truncate(mac.hs), NoOutput)

\* hotp from the MAC on
MacHotp ==
    /\ mac.op = "new"
    /\ \E d \in Digits, bld \in Builds :
          mac' = MacCall(mac.hs, "hotp", d, bld, NoBytes, HotpCode(mac.hs, d, bld))

\* Every MAC of the three lengths, with every last byte.
MacInit ==
    /\ \E len \in MacLengths, seed \in MacSeeds, last \in Byte :
          mac = MacCall(Mac(len, seed, last), "new", 0, "release", NoBytes, NoOutput)
    /\ otp = OtpIdle
    /\ file = Absent
    /\ origin = NoOrigin
    /\ result = NoResult
    /\ freed = <<>>

MacNext ==
    \/ (MacTruncate /\ UNCHANGED <<otp, file, origin, result, freed>>)
    \/ (MacHotp /\ UNCHANGED <<otp, file, origin, result, freed>>)

MacSpec == MacInit /\ [][MacNext]_vars

(***************************************************************************)
(* Properties of database.rs and cli.rs, under Spec                        *)
(***************************************************************************)
\* C1: save_database(vault, path, password) followed by
\* load_database(path, password) succeeds and returns a vault equal to the
\* one saved: the same names, each with the same key, digits, hash, time step
\* and t0.  (The file is as the save that completed wrote it.)
C1_RoundTrip ==
    (result.op = "load" /\ origin.state = "saved" /\ result.password = origin.password)
        => (result.status = "Ok" /\ result.db = origin.db)

\* C1: a vault of two entries that differ in every field came back.
C1_Witness ==
    /\ result.op = "load" /\ origin.state = "saved"
    /\ result.password = origin.password
    /\ result.status = "Ok"
    /\ DOMAIN result.db = Names
    /\ result.db[<<97>>] = TotpClient(ShortKey, 30, 0, 6, "Sha1")
    /\ result.db[<<98>>] = TotpClient(ShortKey, 60, 60, 0, "Sha256")

\* C2: for a file written by save_database with password p, load_database
\* fails with the authentication error of the cipher and returns no vault
\* when it is called with a password other than p, or after a single byte of
\* the persisted ciphertext was changed; the latter for every byte of the
\* ciphertext and of its tag, with any password.
C2_TamperSensitivity ==
    /\ (result.op = "load" /\
            \/ (origin.state = "saved" /\ result.password # origin.password)
            \/ origin.state = "tampered")
        => (result.status = "Err" /\ result.err = "Decryption failed"
                /\ result.db = EmptyDb)
    /\ (AtPrompt /\ origin.state = "saved")
        => \A i \in 1..(Len(file.enc.encrypted_data.bytes) + 1), pw \in Passwords :
              load_database(TamperedAt(file, i, TamperDelta), pw)
                  = Err("Decryption failed", <<>>)

\* C2: load_database given the right password refused a file one byte of
\* whose ciphertext was changed.
C2_Witness ==
    /\ result.op = "load" /\ origin.state = "tampered"
    /\ result.password = origin.password
    /\ origin.db # EmptyDb
    /\ result.status = "Err" /\ result.err = "Decryption failed"

\* C3: when save_database, called on a file that an earlier save wrote,
\* returns an error, the file holds what it held before the call and is
\* loadable with the password of before.
C3_WholeFileReplace ==
    [][(/\ AtPrompt /\ origin.state = "saved"
        /\ result'.op \in {"add", "remove"} /\ result'.status = "Err")
            => /\ file' = file
               /\ load_database(file', origin.password).status = "Ok"]_vars

\* C4: every buffer that held the serialized vault is overwritten before it
\* is released, on every exit path of save_database and load_database.
C4_Scrubbed == \A i \in DOMAIN freed : freed[i].scrubbed

\* C8: a save_database that seals under the derived key of the container it
\* replaces does not use the nonce of that container, whatever the clock
\* reads and whatever is drawn at random.
C8_NonceFresh == ~result.reused

\* C9: load_database returns a vault or an error value for every file
\* content; it does not panic.
C9_LoadNeverAborts == (result.op = "load") => (result.status # "Panic")

\* C10: show and remove given a name that is no key of the loaded vault
\* return an error; they do not panic, do not report success and do not
\* write the file.
C10_UnknownName ==
    (result.op \in {"show", "remove"} /\ result.name # <<>> /\ ~result.found)
        => (result.status = "Err" /\ ~result.wrote)

\* C11: an add given a name that is a key of the loaded vault returns an
\* error and leaves the file, and so the entry under that name, as it was;
\* an add that succeeds had a name that was no key, and keeps every entry
\* that was there.
C11_DuplicateName ==
    [][(AtPrompt /\ result'.op = "add" /\ origin.state = "saved")
        => /\ result'.found
                => /\ result'.status = "Err"
                   /\ ~result'.wrote
                   /\ file' = file /\ origin' = origin
           /\ (result'.status = "Ok" /\ result'.name # <<>>)
                => /\ result'.name \notin DOMAIN origin.db
                   /\ \A n \in DOMAIN origin.db :
                         n \in DOMAIN result'.db /\ result'.db[n] = origin.db[n]]_vars

\* C11: an add of the name "a" was refused on a file that holds "a", and the
\* file still opens to the entry it held.
C11_Witness ==
    /\ result.op = "add" /\ result.found /\ result.name = <<97>>
    /\ result.status = "Err" /\ result.err = "already exists"
    /\ origin.state = "saved" /\ <<97>> \in DOMAIN origin.db
    /\ load_database(file, origin.password).status = "Ok"
    /\ load_database(file, origin.password).db = origin.db

\* C12: every entry inserted through add or obtained from load has a digit
\* count in 1..10.
C12_DigitCount ==
    (result.op \in {"add", "load"} /\ result.status = "Ok")
        => \A n \in DOMAIN result.db : digit(result.db[n]) \in 1..10

\* The vault the file stands for before a command: none before the first
\* add made the database, and else what the commands so far left in it.
Persisted == IF origin.state = "saved" THEN origin.db ELSE EmptyDb

\* The entries add can make of the answers to its prompts.
Addable ==
    {TotpClient(inp.key, inp.timestep, inp.t0, inp.digit, inp.hashtype) :
        inp \in {x \in AddInputs : ~x.base32}}
    \cup {from_base32key(inp.key, inp.timestep, inp.t0, inp.digit, inp.hashtype).client :
            inp \in {x \in AddInputs : x.base32}}

\* What a command op on the name, run on the vault before, left: after is
\* what load_database returns for the file it wrote, saved what it saved.
OnlyNamedChanged(before, op, name, saved, after) ==
    /\ after.status = "Ok"
    /\ after.db = saved
    /\ \A n \in Names \ {name} :
          /\ n \in DOMAIN after.db <=> n \in DOMAIN before
          /\ n \in DOMAIN before => after.db[n] = before[n]
    /\ op = "add" => (name \in DOMAIN after.db /\ after.db[name] \in Addable)
    /\ op = "remove" => name \notin DOMAIN after.db

\* C16: from a new empty database on, after every add and remove that
\* completes, loading the file with the password returns the entries added
\* and not removed since: the command changed the named entry only (add put
\* it there, remove took it away) and every other entry is as it was.
C16_Persistence ==
    [][(/\ AtPrompt /\ origin.state \in {"none", "saved"}
        /\ result'.op \in {"add", "remove"} /\ result'.status = "Ok"
        /\ result'.name # <<>> /\ origin'.state = "saved")
        => OnlyNamedChanged(Persisted, result'.op, result'.name, origin'.db,
                            load_database(file', result'.password))]_vars

\* C16: after the adds of "a" and "b" and the removal of "a", the file
\* opens to the entry "b" alone.
C16_Witness ==
    /\ result.op = "remove" /\ result.status = "Ok"
    /\ result.name = <<97>> /\ result.found
    /\ origin.state = "saved"
    /\ DOMAIN origin.db = {<<98>>}
    /\ load_database(file, origin.password).status = "Ok"
    /\ load_database(file, origin.password).db = origin.db

(***************************************************************************)
(* Properties of otp.rs, under OtpSpec                                     *)
(***************************************************************************)
\* v < 10^d, for v below 2^31; 10^d is above every such v from d = 10 on.
BelowPow10(v, d) == d >= 10 \/ v < 10 ^ d

\* C5: for every key, hash kind, counter and digit count d in 1..10, hotp
\* returns normally a value v with 0 <= v < 10^d, and 10^d is computed
\* without overflow of u32.
C5_DigitBound ==
    (otp.op = "hotp" /\ otp.client.hotp.digit \in 1..10)
        => /\ otp.out.kind = "value"
           /\ otp.out.v >= 0
           /\ BelowPow10(otp.out.v, otp.client.hotp.digit)
           /\ ~U32Pow10(otp.client.hotp.digit).overflow

\* C6: totp called with an instant before t0, or before the Unix epoch, is
\* rejected or uses the counter 0; it computes no code from a counter that
\* wrapped around modulo 2^64.
C6_NoCounterWrap ==
    (otp.op = "totp" /\ (otp.ts < otp.client.t0 \/ otp.ts < 0))
        => (otp.out.kind = "panic" \/ otp.counter = U64Zero)

\* The window of the instant ts for a client with timestep > 0.
Window(client, ts) == (ts - client.t0) \div client.timestep

\* C7: for an entry with time step s > 0 and an instant u >= t0, totp equals
\* hotp of the counter floor((u - t0) / s), and every instant of the same
\* window gives what this one gave.
C7_Windowing ==
    (otp.op = "totp" /\ otp.client.timestep > 0 /\ otp.ts >= otp.client.t0)
        => /\ otp.counter = ToBeBytes(Window(otp.client, otp.ts), 8)
           /\ otp.out = hotp(otp.client.hotp,
                             ToBeBytes(Window(otp.client, otp.ts), 8), otp.build)
           /\ \A u \in Instants :
                 (u >= otp.client.t0 /\ Window(otp.client, u) = Window(otp.client, otp.ts))
                     => totp(otp.client, u, otp.build) = otp.out

\* C7: the RFC 6238 test at 59 s, 8 digits, SHA-1: window 1, code 94287082;
\* and a call after a T0 that is not 0, in a window that is not 0.
C7_Witness ==
    \/ /\ otp.op = "totp"
       /\ otp.client = TotpClient(RfcKey, 30, 0, 8, "Sha1")
       /\ otp.ts = 59
       /\ otp.counter = ToBeBytes(1, 8)
       /\ otp.out = Value(94287082)
    \/ /\ otp.op = "totp"
       /\ otp.client.t0 = 60 /\ otp.client.timestep = 30
       /\ otp.ts = 119
       /\ otp.counter = ToBeBytes(1, 8)
       /\ otp.out.kind = "value"

\* C14: every entry that can be constructed has a time step of at least 1
\* second, so that a totp on it does not divide by zero.
C14_PositiveTimeStep ==
    (otp.op = "totp")
        => /\ otp.client.timestep >= 1
           /\ otp.out # Panic("attempt to divide by zero")

(***************************************************************************)
(* Properties of dynamic_truncate and hotp's reduction, under MacSpec      *)
(***************************************************************************)
\* RFC 4226, 5.3: the offset is the low 4 bits of the last byte; indices of
\* the RFC count from 0, those of a sequence from 1.
RefOffset(hs) == hs[Len(hs)] % 16

\* The 4 bytes at the offset, the top bit of the first cleared, as a
\* big-endian number: below 2^31.
RefBinCode(hs) ==
    (hs[RefOffset(hs) + 1] % 128) * 16777216 + hs[RefOffset(hs) + 2] * 65536
        + hs[RefOffset(hs) + 3] * 256 + hs[RefOffset(hs) + 4]

\* The number reduced modulo 10^d; 10^d is above it from d = 10 on.
RefCode(hs, d) == IF d >= 10 THEN RefBinCode(hs) ELSE RefBinCode(hs) % (10 ^ d)

\* C13: for every MAC of length 20, 32 or 64 and every digit count d in
\* 1..10, hotp's result is the reference value: the 4 bytes at the offset
\* (last byte & 0x0F), top bit cleared, big-endian, modulo 10^d.
C13_DynamicTruncation ==
    (mac.op = "hotp" /\ mac.digit \in 1..10)
        => mac.out = Value(RefCode(mac.hs, mac.digit))

\* C15: for every MAC of length 20, 32 or 64 and every last byte, the
\* indices offset .. offset+3 are below the length of the MAC:
\* dynamic_truncate returns the 4 bytes there, and hotp does not abort on an
\* index out of bounds.
C15_TruncateInBounds ==
    /\ (mac.op = "dynamic_truncate")
        => /\ RefOffset(mac.hs) + 3 < Len(mac.hs)
           /\ mac.dt.ok
           /\ mac.dt.bytes = << mac.hs[RefOffset(mac.hs) + 1] % 128,
                                mac.hs[RefOffset(mac.hs) + 2],
                                mac.hs[RefOffset(mac.hs) + 3],
                                mac.hs[RefOffset(mac.hs) + 4] >>
    /\ (mac.op = "hotp") => (mac.out # Panic("index out of bounds"))

\* C15: the shortest MAC with the largest offset: 20 bytes ending in 0xFF,
\* read at the indices 15..18.
C15_Witness ==
    /\ mac.op = "dynamic_truncate"
    /\ Len(mac.hs) = 20 /\ mac.hs[20] = 255
    /\ mac.dt.ok
    /\ mac.dt.bytes = << mac.hs[16] % 128, mac.hs[17], mac.hs[18], mac.hs[19] >>

====
